---- MODULE Spec2Model ----
(***************************************************************************)
(* vite-plugin-inline: the generateBundle hook of the plugin, in its two   *)
(* implementations: src/src/index.ts (in-memory rebundle of the entry) and *)
(* src/unnamed/part_000 (hand-linking of the entry's imported chunks).     *)
(*                                                                         *)
(* File names, URLs and module references are sequences of tokens          *)
(* ("d", "/", "a", ".js"); code is a sequence of statement tokens; an HTML *)
(* document is a sequence of tags.                                         *)
(***************************************************************************)
EXTENDS Integers, Sequences, FiniteSets, TLC

VARIABLES
    opts,           \* the Options the plugin was constructed with
    input,          \* the bundle handed to generateBundle (never changes)
    bundle,         \* the bundle as generateBundle mutates it
    pc,             \* position inside generateBundle
    hi,             \* index of the HTML file the loop is at
    inlinedKeys,    \* index.ts: keys to delete at the end
    jsBuildCache,   \* index.ts: cache key -> built inline source
    toDeleteKeys,   \* part_000: keys to delete at the end
    entryOf         \* history: HTML key -> what was inlined into it

vars == <<opts, input, bundle, pc, hi, inlinedKeys, jsBuildCache,
          toDeleteKeys, entryOf>>

-----------------------------------------------------------------------------
(* Bounds of the model *)

\* main.js holds at most this many import statements of chunks of the build
MaxImports == 2
\* a build emits at most this many HTML files
MaxHtml == 2

-----------------------------------------------------------------------------
(* Strings *)

Last(s) == s[Len(s)]

endsWith(s, suffix) ==
    /\ Len(suffix) <= Len(s)
    /\ SubSeq(s, Len(s) - Len(suffix) + 1, Len(s)) = suffix

\* index of the last "/" of a path, 0 when it has none
LastSlash(s) ==
    LET at == {i \in 1..Len(s) : s[i] = "/"}
    IN  IF at = {} THEN 0 ELSE CHOOSE i \in at : \A j \in at : j <= i

basename(s) == SubSeq(s, LastSlash(s) + 1, Len(s))

\* URLs of the model carry no ?query or #hash
urlBaseName(url) == basename(url)

\* first index of s whose element equals x, 0 when there is none
IndexOf(s, x) ==
    LET at == {i \in 1..Len(s) : s[i] = x}
    IN  IF at = {} THEN 0 ELSE CHOOSE i \in at : \A j \in at : i <= j

\* String.prototype.replace(string, fn): the first occurrence only
ReplaceFirst(s, x, by) ==
    LET i == IndexOf(s, x)
    IN  IF i = 0 THEN s
        ELSE SubSeq(s, 1, i - 1) \o by \o SubSeq(s, i + 1, Len(s))

\* Array.prototype.find: the first element satisfying Test, <<>> for undefined
Undefined == <<>>
Find(s, Test(_)) ==
    LET at == {i \in 1..Len(s) : Test(s[i])}
    IN  IF at = {} THEN Undefined
        ELSE s[CHOOSE i \in at : \A j \in at : i <= j]

Filter(s, Test(_)) == SelectSeq(s, Test)

Range(s) == {s[i] : i \in 1..Len(s)}

RECURSIVE Concat(_)
Concat(ss) == IF ss = <<>> THEN <<>> ELSE Head(ss) \o Concat(Tail(ss))

-----------------------------------------------------------------------------
(* Code: statement tokens *)

Tok(t, specs, src, of) == [t |-> t, specs |-> specs, src |-> src, of |-> of]
Imp(specs, src) == Tok("import", specs, src, <<>>)  \* import {a as b} from "src";
Bare(src)       == Tok("bare", <<>>, src, <<>>)     \* import "src";
Dyn(src)        == Tok("dyn", <<>>, src, <<>>)      \* import("src")
Body(k)         == Tok("body", <<>>, <<>>, k)       \* the statements of chunk k
Export(specs)   == Tok("export", specs, <<>>, <<>>) \* export {a as b};
Return(specs)   == Tok("return", specs, <<>>, <<>>) \* return{b:a};
Open(pattern)   == Tok("open", pattern, <<>>, <<>>) \* const {a:b}=(()=>{
Close           == Tok("close", <<>>, <<>>, <<>>)   \* })();
Ws              == Tok("ws", <<>>, <<>>, <<>>)      \* white space, line ends

\* String.prototype.trim
RECURSIVE TrimStart(_)
TrimStart(c) == IF c # <<>> /\ Head(c) = Ws THEN TrimStart(Tail(c)) ELSE c
RECURSIVE TrimEnd(_)
TrimEnd(c) ==
    IF c # <<>> /\ Last(c) = Ws THEN TrimEnd(SubSeq(c, 1, Len(c) - 1)) ELSE c
Trim(c) == TrimEnd(TrimStart(c))

-----------------------------------------------------------------------------
(* HTML: tags *)

Tag(tag, rel, ref, module, body, cdata) ==
    [tag |-> tag, rel |-> rel, ref |-> ref, module |-> module,
     body |-> body, cdata |-> cdata]
LinkTag(rel, href)      == Tag("link", rel, href, FALSE, <<>>, FALSE)
ScriptTag(src, module)  == Tag("script", "", src, module, <<>>, FALSE)
StyleTag(css)           == Tag("style", "", <<>>, FALSE, css, FALSE)
InlineScript(code, cd)  == Tag("inline", "", <<>>, TRUE, code, cd)

-----------------------------------------------------------------------------
(* The bundles generateBundle is run on *)

MAIN == <<"main", ".js">>
A    == <<"a", ".js">>
B    == <<"b", ".js">>
DUP  == <<"d", "/", "a", ".js">>    \* shares its basename with A
GONE == <<"gone", ".js">>           \* never a key of the bundle
CSS  == <<"style", ".css">>
MapOf(k) == Append(k, ".map")
HtmlKey(i) == <<"page", ToString(i), ".html">>

RelPath(k) == <<".", "/">> \o k

\* A specifier of an import or export clause is <<"as", a, b>> for "a as b"
\* and <<"id", a, a>> for a plain "a"; a property of an object literal or of
\* a destructuring pattern is <<":", a, b>> for "a:b".

\* what each chunk exports: export {x as y} is <<"as", "x", "y">>
ExportsOf(k) ==
    CASE k = A   -> << <<"as", "x", "y">> >>
      [] k = DUP -> << <<"as", "x", "y">> >>
      [] k = B   -> << <<"id", "v", "v">> >>
      [] OTHER   -> <<>>

\* what an importer binds from chunk k: import {y as z} is <<"as", "y", "z">>
ImportSpecsOf(k) ==
    CASE k = A   -> << <<"as", "y", "z">> >>
      [] k = DUP -> << <<"as", "y", "q">> >>
      [] k = B   -> << <<"id", "v", "v">> >>
      [] OTHER   -> << <<"id", "g", "g">> >>

\* an import statement of the emitted code: its kind and the file it names
Named(k) == [kind |-> "named", target |-> k]
Side(k)  == [kind |-> "bare", target |-> k]
StmtTok(st) ==
    IF st.kind = "named" THEN Imp(ImportSpecsOf(st.target), RelPath(st.target))
    ELSE Bare(RelPath(st.target))

SeqMap(s, F(_)) == [i \in 1..Len(s) |-> F(s[i])]
TargetOf(st) == st.target

\* the emitted code of a chunk: imports, statements, dynamic imports, exports
ChunkCode(k, stmts, dyns) ==
    SeqMap(stmts, StmtTok) \o <<Body(k)>>
        \o SeqMap(dyns, LAMBDA d : Dyn(RelPath(d)))
        \o (IF ExportsOf(k) = <<>> THEN <<>> ELSE <<Export(ExportsOf(k))>>)
        \o <<Ws>>

NoCode == <<>>
Chunk(k, stmts, dyns) ==
    [type |-> "chunk", code |-> ChunkCode(k, stmts, dyns),
     imports |-> SeqMap(stmts, TargetOf),
     dynamicImports |-> dyns,
     source |-> <<>>]
Asset(source) ==
    [type |-> "asset", code |-> NoCode, imports |-> <<>>,
     dynamicImports |-> <<>>, source |-> source]

Comment == Tok("comment", <<>>, <<>>, <<>>)      \* /* ... */
CssText == <<Comment, Body(CSS), Ws>>

\* the HTML documents
DocMain == <<LinkTag("stylesheet", RelPath(CSS)),
             LinkTag("modulepreload", RelPath(A)),
             LinkTag("modulepreload", RelPath(B)),
             ScriptTag(RelPath(MAIN), TRUE)>>
DocDep  == <<ScriptTag(RelPath(A), FALSE)>>
DocGone == <<LinkTag("stylesheet", RelPath(CSS)),
             ScriptTag(RelPath(GONE), TRUE)>>
DocNone == <<LinkTag("stylesheet", RelPath(CSS))>>
Docs == {DocMain, DocDep, DocGone, DocNone}

SeqsUpTo(S, n) ==
    {s \in UNION {[1..m -> S] : m \in 0..n} :
        \A i, j \in 1..Len(s) : s[i] = s[j] => i = j}

\* the import statements a.js and b.js can hold
DepStmtsA == {<<>>, <<Named(B)>>, <<Named(MAIN)>>, <<Named(A)>>}
DepStmtsB == {<<>>, <<Named(A)>>}
\* what else the build holds: a dynamic import of b.js by main.js or by
\* a.js, a second file named a.js, such a file with a first import of it in
\* main.js, or a first import in main.js of a file the build does not hold
Extras == {"none", "dynMain", "dynA", "dup", "dupImp", "gone"}

\* the HTML files of a build: any document first, then distinct pages with
\* a script
MoreDocs == {DocMain, DocDep}
DocSeqs ==
    {d \in UNION {[1..n -> Docs] : n \in 1..MaxHtml} :
        /\ \A i \in 2..Len(d) : d[i] \in MoreDocs
        /\ \A i, j \in 2..Len(d) : d[i] = d[j] => i = j}

MkBundle(mainStmts, aStmts, bStmts, extra, docs) ==
    LET pages == [i \in 1..Len(docs) |-> HtmlKey(i)]
        order == pages \o <<CSS, MAIN, A, B>>
                    \o (IF extra \in {"dup", "dupImp"} THEN <<DUP>> ELSE <<>>)
                    \o <<MapOf(MAIN), MapOf(A)>>
        file(k) ==
            CASE k = MAIN -> Chunk(MAIN,
                                   (CASE extra = "gone" -> <<Named(GONE)>>
                                      [] extra = "dupImp" -> <<Named(DUP)>>
                                      [] OTHER -> <<>>) \o mainStmts,
                                   IF extra = "dynMain" THEN <<B>> ELSE <<>>)
              [] k = A    -> Chunk(A, aStmts,
                                   IF extra = "dynA" THEN <<B>> ELSE <<>>)
              [] k = B    -> Chunk(B, bStmts, <<>>)
              [] k = DUP  -> Chunk(DUP, <<>>, <<>>)
              [] k = CSS  -> Asset(CssText)
              [] k \in Range(pages) ->
                    Asset(docs[CHOOSE i \in 1..Len(docs) : HtmlKey(i) = k])
              [] OTHER    -> Asset(<<"map">>)
    IN  [order |-> order, files |-> [k \in Range(order) |-> file(k)]]

\* the bundles whose main.js holds import statements out of stmts
Bundles(stmts) ==
    {MkBundle(m, a, b, extra, docs) :
        m \in SeqsUpTo(stmts, MaxImports), a \in DepStmtsA,
        b \in DepStmtsB, extra \in Extras, docs \in DocSeqs}

\* key in bundle
Has(bun, k) == k \in DOMAIN bun.files
\* delete by basename: every key named like one of ks goes
DeleteByBasename(bun, ks) ==
    [order |-> SelectSeq(bun.order,
                LAMBDA k : \A d \in ks : basename(k) # basename(d)),
     files |-> [k \in {x \in DOMAIN bun.files :
                        \A d \in ks : basename(x) # basename(d)}
                    |-> bun.files[k]]]

\* delete bundle[key]
Delete(bun, ks) ==
    [order |-> SelectSeq(bun.order, LAMBDA k : k \notin ks),
     files |-> [k \in (DOMAIN bun.files) \ ks |-> bun.files[k]]]
SetSource(bun, k, src) ==
    [bun EXCEPT !.files[k] = [@ EXCEPT !.source = src]]

-----------------------------------------------------------------------------
(* src/src/index.ts *)

jsKeyRe(k)  == Last(k) \in {".js", ".mjs"}
cssKeyRe(k) == Last(k) = ".css"
isHtmlKey(k) == Last(k) = ".html"

htmlKeys(bun) == Filter(bun.order, isHtmlKey)
cssKeys(bun)  == Filter(bun.order, cssKeyRe)
jsKeys(bun)   == Filter(bun.order, jsKeyRe)

toText(source) == source

\* keys.forEach(key => map.set(basename(key), ...)): the last key of a
\* basename wins
LastWith(s, n) ==
    s[CHOOSE i \in 1..Len(s) :
        /\ basename(s[i]) = n
        /\ \A j \in 1..Len(s) : basename(s[j]) = n => j <= i]
jsMapOf(bun) ==
    [n \in {basename(k) : k \in Range(jsKeys(bun))} |->
        bun.files[LastWith(jsKeys(bun), n)].code]
cssMapOf(bun) ==
    [n \in {basename(k) : k \in Range(cssKeys(bun))} |->
        toText(bun.files[LastWith(cssKeys(bun), n)].source)]

escapeForInlineScript(code) == code
escapeForInlineStyle(code) == code

\* createVirtualPlugin.resolveId, for the references of emitted chunks
resolveId(importee, map) ==
    LET bn == basename(importee)
    IN  IF bn \in DOMAIN map THEN bn ELSE Undefined

\* createVirtualPlugin.load
load(bn, map) == map[bn]

\* rolldown's build over the virtual modules: every module reachable from the
\* entry is linked once, after the modules it imports; a reference the
\* plugin does not resolve stays an import of the output; a dynamic import
\* is linked in only under inlineDynamicImports.
RECURSIVE linkModule(_, _, _, _)
RECURSIVE linkTokens(_, _, _, _)
linkModule(bn, map, inlineDynamicImports, st) ==
    IF bn \in st.seen THEN st
    ELSE linkTokens(load(bn, map), map, inlineDynamicImports,
                    [st EXCEPT !.seen = @ \cup {bn}])
linkTokens(code, map, inlineDynamicImports, st) ==
    IF code = <<>> THEN st
    ELSE LET tok == Head(code)
             to  == resolveId(tok.src, map)
             st1 ==
                CASE tok.t \in {"import", "bare"} ->
                        IF to = Undefined
                        THEN [st EXCEPT !.ext = Append(@, tok)]
                        ELSE linkModule(to, map, inlineDynamicImports, st)
                  [] tok.t = "dyn" ->
                        IF inlineDynamicImports /\ to # Undefined
                        THEN linkModule(to, map, inlineDynamicImports, st)
                        ELSE [st EXCEPT !.out = Append(@, tok)]
                  [] tok.t = "body" -> [st EXCEPT !.out = Append(@, tok)]
                  [] OTHER -> st
         IN  linkTokens(Tail(code), map, inlineDynamicImports, st1)
build(name, map, inlineDynamicImports) ==
    LET st == linkModule(name, map, inlineDynamicImports,
                         [seen |-> {}, ext |-> <<>>, out |-> <<>>])
    IN  st.ext \o st.out

\* buildInlineJsSource with a fallback that hands back the untrimmed code
buildInlineJsSourceUntrimmed(name, map, rebundle, inlineDynamicImports) ==
    IF ~rebundle
    THEN {[code |-> Trim(map[name]), how |-> "reused"]}
    ELSE {[code |-> Trim(build(name, map, inlineDynamicImports)),
           how |-> "rebundled"],
          [code |-> map[name], how |-> "fallback"]}

\* the values buildInlineJsSource can resolve to, each with what happened
buildInlineJsSource(name, map, rebundle, inlineDynamicImports) ==
    IF ~rebundle
    THEN {[code |-> Trim(map[name]), how |-> "reused"]}
    ELSE {[code |-> Trim(build(name, map, inlineDynamicImports)),
           how |-> "rebundled"],
          [code |-> Trim(map[name]), how |-> "fallback"]}

stripComments(source) == SelectSeq(source, LAMBDA t : t # Comment)

getCssData(origin, source, removeComments) ==
    [origin |-> origin,
     source |-> StyleTag(escapeForInlineStyle(
                    Trim(IF removeComments THEN stripComments(source)
                         ELSE source)))]

findBundleKey(bun, fileName) ==
    IF Has(bun, fileName) THEN fileName
    ELSE Find(bun.order, LAMBDA k : basename(k) = basename(fileName))

\* one iteration of the while loop of collectJsDeps
collectJsDepsStep(st, bun, includeDynamic) ==
    LET key  == Head(st.q)
        rest == Tail(st.q)
    IN  IF key \in st.seen THEN [q |-> rest, seen |-> st.seen]
        ELSE LET seen1 == st.seen \cup {key}
                 cur   == bun.files[key]
             IN  IF ~Has(bun, key) \/ cur.type # "chunk"
                 THEN [q |-> rest, seen |-> seen1]
                 ELSE LET nexts == cur.imports \o
                            (IF includeDynamic THEN cur.dynamicImports
                             ELSE <<>>)
                          depKeys == SeqMap(nexts,
                                LAMBDA n : findBundleKey(bun, n))
                      IN  [q |-> rest \o SelectSeq(depKeys,
                                LAMBDA d : d # Undefined /\ d \notin seen1),
                           seen |-> seen1]
RECURSIVE collectJsDepsLoop(_, _, _)
collectJsDepsLoop(st, bun, includeDynamic) ==
    IF st.q = <<>> THEN st.seen
    ELSE collectJsDepsLoop(collectJsDepsStep(st, bun, includeDynamic),
                           bun, includeDynamic)
collectJsDeps(entryKey, bun, includeDynamic) ==
    IF ~Has(bun, entryKey) \/ bun.files[entryKey].type # "chunk" THEN {}
    ELSE collectJsDepsLoop([q |-> <<entryKey>>, seen |-> {}], bun,
                           includeDynamic) \ {entryKey}

-----------------------------------------------------------------------------
(* generateBundle of src/src/index.ts *)

cssLinkRe(tag) ==
    tag.tag = "link" /\ tag.rel = "stylesheet" /\ tag.ref # <<>>
        /\ Last(tag.ref) = ".css"
jsScriptRe(tag) ==
    tag.tag = "script" /\ tag.ref # <<>> /\ Last(tag.ref) \in {".js", ".mjs"}
modulePreloadRe(tag) ==
    tag.tag = "link" /\ tag.rel = "modulepreload" /\ tag.ref # <<>>
        /\ Last(tag.ref) \in {".js", ".mjs"}

NoKey == <<>>
\* what was inlined into an HTML: the entry key and name, how the source was
\* obtained, the source, the keys processed for it, the keys marked for
\* deletion on its behalf
NoEntry == [key |-> NoKey, name |-> NoKey, how |-> "none", code |-> <<>>,
            keys |-> <<>>, marked |-> {}]

hasKeyNamed(keys, n) == \E i \in 1..Len(keys) : basename(keys[i]) = n
keyNamed(keys, n) == Find(keys, LAMBDA k : basename(k) = n)

\* lines 413-424: the <style> replacement of every stylesheet link that
\* names a CSS key of the bundle
cssLinksOf(src, bun) ==
    Filter(src, LAMBDA tag :
        cssLinkRe(tag) /\ hasKeyNamed(cssKeys(bun), urlBaseName(tag.ref)))
cssDatasOf(src, bun, removeComments) ==
    SeqMap(cssLinksOf(src, bun), LAMBDA tag :
        getCssData(tag, cssMapOf(bun)[urlBaseName(tag.ref)], removeComments))
cssKeysOf(src, bun) ==
    {keyNamed(cssKeys(bun), urlBaseName(tag.ref)) :
        tag \in Range(cssLinksOf(src, bun))}

\* lines 427-436: the script tags that name a JS key of the bundle
candidatesOf(src, bun) ==
    LET keys == jsKeys(bun)
        names == {basename(k) : k \in Range(keys)}    \* the keys of jsMap
        tags == Filter(src, LAMBDA tag :
                    jsScriptRe(tag)
                        /\ urlBaseName(tag.ref) \in names
                        /\ hasKeyNamed(keys, urlBaseName(tag.ref)))
    IN  SeqMap(tags, LAMBDA tag :
            [origin |-> tag, jsName |-> urlBaseName(tag.ref),
             jsKey |-> keyNamed(keys, urlBaseName(tag.ref))])

\* line 443: prefer type="module"
chooseCandidate(candidates) ==
    LET modules == Filter(candidates, LAMBDA c : c.origin.module)
    IN  IF modules # <<>> THEN modules[1] ELSE candidates[1]

\* the links to everything marked as inlined so far are stripped as well
stripPreloadsOfInlined(src, names) ==
    SelectSeq(src, LAMBDA tag :
        ~(modulePreloadRe(tag)
            /\ urlBaseName(tag.ref)
                    \in names \cup {basename(k) : k \in inlinedKeys}))

\* lines 496-502
stripPreloads(src, names) ==
    IF names = {} THEN src
    ELSE SelectSeq(src, LAMBDA tag :
            ~(modulePreloadRe(tag) /\ urlBaseName(tag.ref) \in names))

\* lines 505-507
RECURSIVE applyReplacements(_, _)
applyReplacements(src, datas) ==
    IF datas = <<>> THEN src
    ELSE applyReplacements(
            ReplaceFirst(src, Head(datas).origin, <<Head(datas).source>>),
            Tail(datas))

\* lines 469-477: the keys marked as inlined for an entry
markedKeys(jsKey, deps) == {jsKey} \cup deps

\* lines 471-492: the names whose modulepreload links are stripped. The
\* traversal with dynamic imports warns about the chunks that stay external
\* and adds the names of those that are dependencies
preloadNamesOf(jsKey, deps, withDynamic) ==
    {basename(jsKey)} \cup {basename(k) : k \in deps}
        \cup {basename(k) : k \in withDynamic \cap deps}

curHtmlKey == htmlKeys(input)[hi]

nextHtml ==
    IF hi < Len(htmlKeys(input))
    THEN hi' = hi + 1 /\ pc' = "html"
    ELSE hi' = hi /\ pc' = "remove"

\* lines 407-510, an HTML with no candidate script: only its CSS is inlined
inlineCssOnly ==
    /\ pc = "html"
    /\ LET src == toText(bundle.files[curHtmlKey].source)
       IN  /\ candidatesOf(src, input) = <<>>
           /\ bundle' = SetSource(bundle, curHtmlKey,
                applyReplacements(src,
                    cssDatasOf(src, input, opts.removeComments)))
           /\ inlinedKeys' = inlinedKeys \cup cssKeysOf(src, input)
    /\ nextHtml
    /\ UNCHANGED <<opts, input, jsBuildCache, toDeleteKeys, entryOf>>

\* a rebundle whatever the entry imports
needRebundleAlways(entryMeta, inlineDynamicImports) == TRUE
\* lines 446-448
needRebundle(entryMeta, inlineDynamicImports) ==
    LET hasStaticImports == Len(entryMeta.imports) > 0
    IN  hasStaticImports \/ inlineDynamicImports

\* lines 407-510, an HTML with a candidate script
inlineHtml ==
    /\ pc = "html"
    /\ LET src == toText(bundle.files[curHtmlKey].source)
           candidates == candidatesOf(src, input)
           chosen == chooseCandidate(candidates)
           jsKey == chosen.jsKey
           jsName == chosen.jsName
           entryMeta == bundle.files[jsKey]
           rebundle == needRebundle(entryMeta, opts.inlineDynamicImports)
           cacheKey == <<jsName, rebundle, opts.inlineDynamicImports>>
           cssDatas == cssDatasOf(src, input, opts.removeComments)
           deps == collectJsDeps(jsKey, bundle, opts.inlineDynamicImports)
           withDynamic == IF opts.inlineDynamicImports THEN {}
                          ELSE collectJsDeps(jsKey, bundle, TRUE)
           stripped == stripPreloads(src,
                            preloadNamesOf(jsKey, deps, withDynamic))
       IN  /\ candidates # <<>>
           /\ \E p \in (IF cacheKey \in DOMAIN jsBuildCache
                        THEN {jsBuildCache[cacheKey]}
                        ELSE buildInlineJsSource(jsName, jsMapOf(input),
                                rebundle, opts.inlineDynamicImports)) :
                LET jsData == [origin |-> chosen.origin,
                               source |-> InlineScript(
                                    escapeForInlineScript(p.code),
                                    opts.cdataJs)]
                IN  /\ jsBuildCache' = (cacheKey :> p) @@ jsBuildCache
                    /\ bundle' = SetSource(bundle, curHtmlKey,
                            applyReplacements(stripped,
                                              Append(cssDatas, jsData)))
                    /\ entryOf' = [entryOf EXCEPT ![curHtmlKey] =
                            [key |-> jsKey, name |-> jsName, how |-> p.how,
                             code |-> p.code, keys |-> <<>>,
                             marked |-> markedKeys(jsKey, deps)]]
           /\ inlinedKeys' = inlinedKeys \cup cssKeysOf(src, input)
                                \cup markedKeys(jsKey, deps)
    /\ nextHtml
    /\ UNCHANGED <<opts, input, toDeleteKeys>>

\* lines 512-518
removeInlined ==
    /\ pc = "remove"
    /\ bundle' = Delete(bundle,
            inlinedKeys \cup {MapOf(k) : k \in inlinedKeys})
    /\ pc' = "done"
    /\ UNCHANGED <<opts, input, hi, inlinedKeys, jsBuildCache, toDeleteKeys,
                   entryOf>>

-----------------------------------------------------------------------------
(* src/unnamed/part_000: the hand-linking implementation *)

jsMainRe(tag)  == tag.tag = "script" /\ tag.ref # <<>> /\ Last(tag.ref) = ".js"
jsChunkRe(tok) == tok.t = "import" /\ tok.src # <<>> /\ Last(tok.src) = ".js"
cssRe(tag)     == tag.tag = "link" /\ tag.ref # <<>> /\ Last(tag.ref) = ".css"

\* jsCode.replace(exportsRe, ...): the first export clause becomes a return
\* of an object literal; exportAsRe turns "a as b" into "b:a"
exportAs(spec) == IF spec[1] = "as" THEN <<":", spec[3], spec[2]>> ELSE spec
export2Return(jsCode) ==
    LET at == {i \in 1..Len(jsCode) : jsCode[i].t = "export"}
        i  == CHOOSE j \in at : \A k \in at : j <= k
    IN  IF at = {} THEN jsCode
        ELSE SubSeq(jsCode, 1, i - 1)
                \o <<Return(SeqMap(jsCode[i].specs, exportAs))>>
                \o SubSeq(jsCode, i + 1, Len(jsCode))

\* one pattern whatever the import binds
import2ConstOneName(importExpr) == << <<"id", "ns", "ns">> >>
\* the braces of the import with every " as " turned into ":"
importAs(spec) == IF spec[1] = "as" THEN <<":", spec[2], spec[3]>> ELSE spec
import2Const(importExpr) == SeqMap(importExpr.specs, importAs)

\* code.replace(emptyLineRe, '').trim(), then the comments are removed
cleanCode(code, removeComments) ==
    IF removeComments THEN stripComments(Trim(code)) ELSE Trim(code)

Thrown == [ok |-> FALSE]

\* part_000 lines 82-102; bundle[undefined].source throws a TypeError
getCssDataLegacy(origin, cssName, keys, bun, removeComments) ==
    LET key == Find(keys, LAMBDA it : endsWith(it, cssName))
        source == bun.files[key].source
    IN  IF key = Undefined THEN Thrown
        ELSE [ok |-> TRUE, origin |-> origin,
              source |-> StyleTag(Trim(IF removeComments
                                       THEN stripComments(source)
                                       ELSE source)),
              key |-> key]

\* part_000 lines 114-136; bundle[undefined].code throws a TypeError
getJsChunkData(origin, jsName, keys, bun, removeComments) ==
    LET key == Find(keys, LAMBDA it : endsWith(it, jsName))
        source == cleanCode(bun.files[key].code, removeComments)
    IN  IF key = Undefined THEN Thrown
        ELSE [ok |-> TRUE, origin |-> origin,
              source |-> <<Open(import2Const(origin))>>
                            \o export2Return(source) \o <<Close>>,
              key |-> key]

\* part_000 lines 165-167
RECURSIVE replaceImports(_, _)
replaceImports(source, jsChunkDatas) ==
    IF jsChunkDatas = <<>> THEN source
    ELSE replaceImports(
            ReplaceFirst(source, Head(jsChunkDatas).origin,
                         Head(jsChunkDatas).source),
            Tail(jsChunkDatas))

\* part_000 lines 148-180
getJsData(origin, jsName, keys, bun, removeComments) ==
    LET key == Find(keys, LAMBDA it : endsWith(it, jsName))
        source == cleanCode(bun.files[key].code, removeComments)
        jsChunkDatas ==
            SeqMap(Filter(source, jsChunkRe), LAMBDA m :
                getJsChunkData(m, basename(m.src), keys, bun, removeComments))
    IN  IF key = Undefined THEN Thrown
        ELSE IF \E i \in 1..Len(jsChunkDatas) : ~jsChunkDatas[i].ok
        THEN Thrown
        ELSE [ok |-> TRUE, origin |-> origin,
              source |-> InlineScript(
                    Trim(replaceImports(source, jsChunkDatas)), FALSE),
              keys |-> <<key>> \o SeqMap(jsChunkDatas, LAMBDA d : d.key)]

legacyJsKeys(bun)  == Filter(bun.order, LAMBDA k : Last(k) = ".js")
legacyCssKeys(bun) == Filter(bun.order, LAMBDA k : Last(k) = ".css")

legacyCssDatas(src) ==
    SeqMap(Filter(src, cssRe), LAMBDA m :
        getCssDataLegacy(m, basename(m.ref), legacyCssKeys(input), bundle,
                         opts.removeComments))
legacyCssThrows(src) ==
    \E i \in 1..Len(legacyCssDatas(src)) : ~legacyCssDatas(src)[i].ok
legacyHasMain(src) == \E i \in 1..Len(src) : jsMainRe(src[i])
legacyJsData(src) ==
    LET jsMatch == Find(src, jsMainRe)
    IN  getJsData(jsMatch, basename(jsMatch.ref), legacyJsKeys(input),
                  bundle, opts.removeComments)

\* part_000 lines 240-273, the callback run to its end
legacyInlineHtml ==
    /\ pc = "html"
    /\ LET src == bundle.files[curHtmlKey].source
           cssDatas == legacyCssDatas(src)
           jsData == legacyJsData(src)
       IN  /\ ~legacyCssThrows(src)
           /\ legacyHasMain(src)
           /\ jsData.ok
           /\ bundle' = SetSource(bundle, curHtmlKey,
                ReplaceFirst(applyReplacements(src, cssDatas),
                             jsData.origin, <<jsData.source>>))
           /\ toDeleteKeys' = toDeleteKeys
                \o SeqMap(cssDatas, LAMBDA d : d.key) \o jsData.keys
           /\ entryOf' = [entryOf EXCEPT ![curHtmlKey] =
                [key |-> jsData.keys[1],
                 name |-> basename(Find(src, jsMainRe).ref),
                 how |-> "linked", code |-> jsData.source.body,
                 keys |-> jsData.keys, marked |-> Range(jsData.keys)]]
    /\ nextHtml
    /\ UNCHANGED <<opts, input, inlinedKeys, jsBuildCache>>

\* part_000 lines 250-254: no main script, the callback returns
legacyNoMain ==
    /\ pc = "html"
    /\ LET src == bundle.files[curHtmlKey].source
       IN  ~legacyCssThrows(src) /\ ~legacyHasMain(src)
    /\ nextHtml
    /\ UNCHANGED <<opts, input, bundle, inlinedKeys, jsBuildCache,
                   toDeleteKeys, entryOf>>

\* part_000 lines 245-257: a key that is not found makes the hook throw
legacyThrow ==
    /\ pc = "html"
    /\ LET src == bundle.files[curHtmlKey].source
       IN  \/ legacyCssThrows(src)
           \/ legacyHasMain(src) /\ ~legacyJsData(src).ok
    /\ pc' = "threw"
    /\ UNCHANGED <<opts, input, bundle, hi, inlinedKeys, jsBuildCache,
                   toDeleteKeys, entryOf>>

\* part_000 lines 275-278
legacyRemove ==
    /\ pc = "remove"
    /\ bundle' = Delete(bundle, Range(toDeleteKeys))
    /\ pc' = "done"
    /\ UNCHANGED <<opts, input, hi, inlinedKeys, jsBuildCache, toDeleteKeys,
                   entryOf>>

-----------------------------------------------------------------------------
(* The specifications *)

\* the Options of index.ts (lines 318-349)
Options ==
    [removeComments : {TRUE}, cdataJs : BOOLEAN,
     inlineDynamicImports : BOOLEAN]

\* the import statements of main.js; index.ts reads an import's target,
\* never its form
CurrentStmts == {Named(A), Named(B)}

StartOn(bun) ==
    /\ input = bun
    /\ bundle = bun
    /\ pc = "html"
    /\ hi = 1
    /\ inlinedKeys = {}
    /\ jsBuildCache = <<>>
    /\ toDeleteKeys = <<>>
    /\ entryOf = [k \in Range(htmlKeys(bun)) |-> NoEntry]

Init ==
    /\ opts \in Options
    /\ \E bun \in Bundles(CurrentStmts) : StartOn(bun)

Next ==
    \/ inlineCssOnly
    \/ inlineHtml
    \/ removeInlined

Spec == Init /\ [][Next]_vars

\* the Options of part_000 (lines 185-207)
LegacyOptions ==
    [removeComments : BOOLEAN, cdataJs : {FALSE},
     inlineDynamicImports : {FALSE}]

\* the import statements of main.js; only part_000 tells a named import
\* from a bare one
LegacyStmts == {Named(A), Named(B), Side(B), Named(MAIN)}

InitLegacy ==
    /\ opts \in LegacyOptions
    /\ \E bun \in Bundles(LegacyStmts) : StartOn(bun)

NextLegacy ==
    \/ legacyInlineHtml
    \/ legacyNoMain
    \/ legacyThrow
    \/ legacyRemove

SpecLegacy == InitLegacy /\ [][NextLegacy]_vars

-----------------------------------------------------------------------------
(* Notions the properties speak of *)

Pages == Range(htmlKeys(input))
Inlined(h) == entryOf[h].how # "none"
Finished == pc = "done"

\* the chunks of the bundle that chunk k imports statically
StaticImports(k) ==
    IF Has(input, k)
    THEN {t \in Range(input.files[k].imports) : Has(input, t)}
    ELSE {}
DynamicImports(k) ==
    IF Has(input, k)
    THEN {t \in Range(input.files[k].dynamicImports) : Has(input, t)}
    ELSE {}
RECURSIVE Reach(_)
Reach(S) ==
    LET T == S \cup UNION {StaticImports(k) : k \in S}
    IN  IF T = S THEN S ELSE Reach(T)
\* the transitive static-import closure of chunk k
StaticClosure(k) == Reach(StaticImports(k))
\* the entry and everything folded into its script
Folded(k) == {k} \cup StaticClosure(k)
Cyclic(k) == \E c \in Folded(k) : c \in StaticClosure(c)

ImportsLeft(code) ==
    {i \in 1..Len(code) : code[i].t \in {"import", "bare", "export"}}
PositionsOf(code, k) == {i \in 1..Len(code) : code[i] = Body(k)}

\* the script tags of a document
ScriptTags(src) == SelectSeq(src, LAMBDA tag : tag.tag = "script")
\* no script tag of page h names a JS key of the bundle
UnresolvableEntry(h) ==
    \A i \in 1..Len(input.files[h].source) :
        LET tag == input.files[h].source[i]
        IN  tag.tag = "script" =>
                ~hasKeyNamed(jsKeys(input), urlBaseName(tag.ref))
\* the pages the loop is done with
Processed ==
    {h \in Pages : \E i \in 1..Len(htmlKeys(input)) :
        /\ htmlKeys(input)[i] = h
        /\ (i < hi \/ pc \in {"remove", "done"})}

-----------------------------------------------------------------------------
(* Properties *)

\* C1: after generateBundle, for every HTML whose entry script was inlined,
\* the entry chunk and every chunk of its transitive static-import closure
\* is absent from the bundle, and so is the "<key>.map" entry of each.
C1_InlinedChunksRemoved ==
    Finished =>
        \A h \in Pages : Inlined(h) =>
            \A k \in Folded(entryOf[h].key) :
                ~Has(bundle, k) /\ ~Has(bundle, MapOf(k))

\* C2: the script body produced for an entry holds no import and no export
\* statement.
C2_NoImportExportLeft ==
    \A h \in Pages : Inlined(h) => ImportsLeft(entryOf[h].code) = {}

\* C3: for an acyclic chunk graph, for every edge "u imports v" reachable
\* from the entry, the code of v stands in the script strictly before the
\* code of u.
C3_DependencyFirst ==
    \A h \in Pages : Inlined(h) /\ ~Cyclic(entryOf[h].key) =>
        \A u \in Folded(entryOf[h].key) : \A v \in StaticImports(u) :
            /\ PositionsOf(entryOf[h].code, v) # {}
            /\ \A i \in PositionsOf(entryOf[h].code, v) :
               \A j \in PositionsOf(entryOf[h].code, u) : i < j

\* C4: for a chunk graph with a cycle, the traversal ends having processed
\* each reachable chunk exactly once.
C4_EachChunkOnce ==
    \A h \in Pages : Inlined(h) /\ Cyclic(entryOf[h].key) =>
        \A k \in Folded(entryOf[h].key) :
            Cardinality({i \in 1..Len(entryOf[h].keys) :
                            entryOf[h].keys[i] = k}) = 1

\* C5: with inlineDynamicImports false, every chunk that an inlined entry or
\* one of its static dependencies imports dynamically is still in the bundle
\* after generateBundle.
C5_DynamicChunksKept ==
    Finished /\ ~opts.inlineDynamicImports =>
        \A h \in Pages : Inlined(h) =>
            \A k \in Folded(entryOf[h].key) : \A d \in DynamicImports(k) :
                Has(bundle, d)

C7_UnresolvedImportSkipped ==
    pc = "threw" => UnresolvableEntry(curHtmlKey)

\* C8: for a page whose script tag resolves to no JS chunk of the bundle,
\* generateBundle leaves the script tags untouched and does not throw.
C8_UnresolvableEntryLeft ==
    /\ pc = "threw" => ~UnresolvableEntry(curHtmlKey)
    /\ \A h \in Processed : UnresolvableEntry(h) =>
            ScriptTags(bundle.files[h].source)
                = ScriptTags(input.files[h].source)

\* an entry with no static imports and no exports
PlainEntry(h) ==
    /\ Inlined(h)
    /\ input.files[entryOf[h].key].imports = <<>>
    /\ \A i \in 1..Len(input.files[entryOf[h].key].code) :
            input.files[entryOf[h].key].code[i].t # "export"
UniqueName(h) ==
    \A k \in Range(jsKeys(input)) :
        basename(k) = entryOf[h].name => k = entryOf[h].key

PreloadTargets(tag) ==
    {k \in Range(jsKeys(input)) : tag.ref = RelPath(k)}
\* the chunks some chunk of the build imports dynamically
DynamicChunks == UNION {DynamicImports(k) : k \in Range(jsKeys(input))}

\* C11: after generateBundle no HTML of the build holds a modulepreload link
\* to a chunk that was inlined and deleted, whichever HTML it was inlined
\* for, and every modulepreload link to a dynamic chunk that is still in the
\* bundle is kept.
C11_PreloadsFollowDeletion ==
    Finished =>
        \A h \in Pages :
            /\ \A tag \in Range(bundle.files[h].source) :
                    modulePreloadRe(tag) =>
                        \A k \in PreloadTargets(tag) : Has(bundle, k)
            /\ \A tag \in Range(input.files[h].source) :
                    (/\ modulePreloadRe(tag)
                     /\ \E k \in PreloadTargets(tag) :
                            k \in DynamicChunks /\ Has(bundle, k))
                        => tag \in Range(bundle.files[h].source)

-----------------------------------------------------------------------------
(* What a hand-linked script binds when it runs *)

CountOf(c, from, to, t) == Cardinality({n \in from..to : c[n].t = t})
\* the wrapper opened at j is still open at i
EnclosedBy(c, j, i) ==
    /\ j < i
    /\ c[j].t = "open"
    /\ \A m \in (j + 1)..(i - 1) :
            CountOf(c, j + 1, m, "open") >= CountOf(c, j + 1, m, "close")
\* the innermost wrapper around position i, 0 for the top level
Encl(c, i) ==
    LET js == {j \in 1..(i - 1) : EnclosedBy(c, j, i)}
    IN  IF js = {} THEN 0 ELSE CHOOSE j \in js : \A k \in js : k <= j
\* the chunks whose statements run directly in the wrapper opened at j
WrappedBy(c, j) ==
    {c[i].of : i \in {n \in 1..Len(c) : c[n].t = "body" /\ Encl(c, n) = j}}
\* the properties of the object the wrapper opened at j returns
ReturnedBy(c, j) ==
    UNION {Range(c[i].specs) :
            i \in {n \in 1..Len(c) : c[n].t = "return" /\ Encl(c, n) = j}}
\* <<local, chunk, variable>>: the destructuring at j binds local to the
\* value that variable has inside chunk
Binds(c, j) ==
    {<<pq[1][3], k, pq[2][3]>> :
        pq \in {x \in Range(c[j].specs) \X ReturnedBy(c, j) :
                    x[1][2] = x[2][2]},
        k \in WrappedBy(c, j)}

\* the named import statements of chunk u, as emitted
NamedImports(u) ==
    {input.files[u].code[i] :
        i \in {n \in 1..Len(input.files[u].code) :
                input.files[u].code[n].t = "import"}}
\* the specifiers of the export clause of chunk v, as emitted
ExportSpecs(v) ==
    UNION {Range(input.files[v].code[i].specs) :
        i \in {n \in 1..Len(input.files[v].code) :
                input.files[v].code[n].t = "export"}}
\* the chunks of the build an import statement names
ImportTargets(imp) ==
    {v \in Range(jsKeys(input)) : imp.src = RelPath(v)}

\* C12: for a chunk v exporting local x under the name y and an importer u
\* binding y to its local z, the script binds z, in the scope where the
\* statements of u run, to the value of x inside v.
C12_AliasRoundTrip ==
    \A h \in Pages : Inlined(h) =>
        LET c == entryOf[h].code
        IN  \A i \in 1..Len(c) : c[i].t = "body" =>
              \A imp \in NamedImports(c[i].of) :
              \A v \in ImportTargets(imp) :
              \A sp \in Range(imp.specs) :
              \A ex \in ExportSpecs(v) :
                ex[3] = sp[2] =>
                    \E j \in 1..Len(c) :
                        /\ c[j].t = "open"
                        /\ Encl(c, j) = Encl(c, i)
                        /\ <<sp[3], v, ex[2]>> \in Binds(c, j)

\* the two rewrites taken alone: an import of the entry that part_000 turns
\* into a wrapper destructures the exported name into the importer's local
\* and the wrapper returns the local value under the exported name
C12_EntryImportsBound ==
    \A h \in Pages : Inlined(h) =>
        LET c == entryOf[h].code
        IN  \A j \in 1..Len(c) : c[j].t = "open" /\ Encl(c, j) = 0 =>
              \A v \in WrappedBy(c, j) :
              \A sp \in Range(ImportSpecsOf(v)) :
              \A ex \in ExportSpecs(v) :
                ex[3] = sp[2] /\ (\E p \in Range(c[j].specs) : p[3] = sp[3])
                    => <<sp[3], v, ex[2]>> \in Binds(c, j)

Wrappers(c) == {j \in 1..Len(c) : c[j].t = "open"}
\* the identifiers the destructuring of the wrapper opened at j declares
LocalsOf(c, j) == {p[3] : p \in Range(c[j].specs)}

C14_EmptyNamespace ==
    \A h \in Pages : Inlined(h) =>
        LET c == entryOf[h].code
        IN  \A j \in Wrappers(c) :
                (/\ WrappedBy(c, j) # {}
                 /\ \A k \in WrappedBy(c, j) : ExportSpecs(k) = {})
                    => \E n \in 1..Len(c) :
                            /\ c[n].t = "return"
                            /\ Encl(c, n) = j
                            /\ c[n].specs = <<>>

\* C15: the dependencies collected for an entry are exactly the chunks of
\* the bundle the entry imports statically, directly or through other
\* chunks, each once, and never the entry itself.
C15_ExactDependencySet ==
    \A h \in Pages : Inlined(h) =>
        LET deps == Tail(entryOf[h].keys)
        IN  /\ Range(deps) = StaticClosure(entryOf[h].key) \ {entryOf[h].key}
            /\ \A i, j \in 1..Len(deps) : deps[i] = deps[j] => i = j

\* the same of collectJsDeps of index.ts, which keeps a set: without
\* inlineDynamicImports the keys marked besides the entry are the static
\* closure of the entry
C15_CollectedStaticClosure ==
    \A h \in Pages : Inlined(h) /\ ~opts.inlineDynamicImports =>
        entryOf[h].marked \ {entryOf[h].key}
            = StaticClosure(entryOf[h].key) \ {entryOf[h].key}

\* the wrappers of the script around the statements of chunk k
WrappersOf(c, k) == {j \in Wrappers(c) : k \in WrappedBy(c, j)}

\* C16: each non-entry chunk the entry imports statically, directly or
\* through other chunks, stands in the script as exactly one wrapper, and
\* its statements stand there exactly once.
C16_OneWrapperPerChunk ==
    \A h \in Pages : Inlined(h) =>
        \A k \in StaticClosure(entryOf[h].key) \ {entryOf[h].key} :
            /\ Cardinality(WrappersOf(entryOf[h].code, k)) = 1
            /\ Cardinality(PositionsOf(entryOf[h].code, k)) = 1

\* the same of the chunks part_000 did fold: no chunk is wrapped twice
C16_NoChunkWrappedTwice ==
    \A h \in Pages : Inlined(h) =>
        \A k \in Range(Tail(entryOf[h].keys)) \ {entryOf[h].key} :
            Cardinality(WrappersOf(entryOf[h].code, k)) = 1

\* the JS keys of the build that share the basename n
KeysNamed(n) == {k \in Range(jsKeys(input)) : basename(k) = n}

\* C17: when two JS files of the build share the basename a script names,
\* the last of them wins: the code inlined is the code of the last such key
\* and the key treated as the entry, whose imports are followed and which is
\* deleted, is that same key.
C17_LastBasenameWins ==
    \A h \in Pages :
        Inlined(h) /\ Cardinality(KeysNamed(entryOf[h].name)) > 1 =>
            LET last == LastWith(jsKeys(input), entryOf[h].name)
            IN  /\ entryOf[h].how \in {"reused", "fallback"} =>
                        entryOf[h].code = Trim(input.files[last].code)
                /\ entryOf[h].key = last
                /\ Finished => ~Has(bundle, last)

\* the bundle with page h as its only HTML file
OnlyPage(h) == Delete(input, Pages \ {h})
\* what the loop body of index.ts makes of page h when h is the only HTML
\* file of the build: one source for each way the entry's build can end
AloneOutputs(h) ==
    LET bun == OnlyPage(h)
        src == toText(bun.files[h].source)
        cssDatas == cssDatasOf(src, bun, opts.removeComments)
        candidates == candidatesOf(src, bun)
        chosen == chooseCandidate(candidates)
        rebundle == needRebundle(bun.files[chosen.jsKey],
                                 opts.inlineDynamicImports)
        deps == collectJsDeps(chosen.jsKey, bun, opts.inlineDynamicImports)
        withDynamic == IF opts.inlineDynamicImports THEN {}
                       ELSE collectJsDeps(chosen.jsKey, bun, TRUE)
        stripped == stripPreloads(src,
                        preloadNamesOf(chosen.jsKey, deps, withDynamic))
    IN  IF candidates = <<>> THEN {applyReplacements(src, cssDatas)}
        ELSE {applyReplacements(stripped,
                Append(cssDatas,
                    [origin |-> chosen.origin,
                     source |-> InlineScript(escapeForInlineScript(p.code),
                                             opts.cdataJs)])) :
                p \in buildInlineJsSource(chosen.jsName, jsMapOf(bun),
                            rebundle, opts.inlineDynamicImports)}
\* no chunk and no CSS asset was deleted or modified
AssetsUntouched ==
    \A k \in DOMAIN input.files \ Pages :
        Has(bundle, k) /\ bundle.files[k] = input.files[k]

\* C18: the HTML files of a build are processed independently: as long as
\* some HTML file may still be processed no chunk and no CSS asset is
\* deleted or modified, and the source written for a page is one the page
\* gets when it is the only HTML file of the build.
C18_PagesIndependent ==
    /\ pc \in {"html", "remove"} => AssetsUntouched
    /\ \A h \in Processed : bundle.files[h].source \in AloneOutputs(h)
    /\ \A h \in Pages \ Processed :
            bundle.files[h].source = input.files[h].source
C18_Witness ==
    \E h1, h2 \in Processed :
        /\ h1 # h2
        /\ Inlined(h1) /\ Inlined(h2)
        /\ entryOf[h1].marked \cap entryOf[h2].marked # {}
        /\ Finished

\* part_000 deletes at the end of the hook as well
C18_LegacyAssetsUntouched ==
    pc \in {"html", "remove", "threw"} => AssetsUntouched

\* the chunks of the build the static import statements left in code name
StillImported(code) ==
    UNION {ImportTargets(code[i]) :
            i \in {n \in 1..Len(code) : code[n].t \in {"import", "bare"}}}

\* C19: after generateBundle every static import left in an inlined script
\* or in a JS chunk still in the bundle names a chunk that is still in the
\* bundle.
C19_NoDanglingImport ==
    Finished =>
        /\ \A h \in Pages : Inlined(h) =>
                \A v \in StillImported(entryOf[h].code) : Has(bundle, v)
        /\ \A k \in Range(jsKeys(input)) : Has(bundle, k) =>
                \A v \in StaticImports(k) : Has(bundle, v)

\* the CSS assets a processed page links as a stylesheet
InlinedCss ==
    {k \in Range(cssKeys(input)) :
        \E h \in Processed : \E tag \in Range(input.files[h].source) :
            /\ tag.tag = "link"
            /\ tag.ref # <<>>
            /\ basename(tag.ref) = basename(k)}
\* the keys generateBundle may remove: inlined CSS, chosen entries, the
\* dependencies collected for them
Removable == InlinedCss \cup UNION {entryOf[h].marked : h \in Pages}

\* C20: generateBundle removes only inlined CSS assets, chosen entry chunks,
\* their collected dependency chunks and the "<key>.map" of those; it adds
\* no entry, and it changes the content of no JS chunk and no CSS asset:
\* only HTML sources change.
C20_FrameOfRemoval ==
    /\ DOMAIN bundle.files \subseteq DOMAIN input.files
    /\ \A k \in DOMAIN input.files : ~Has(bundle, k) =>
            k \in Removable \cup {MapOf(r) : r \in Removable}
    /\ \A k \in DOMAIN bundle.files :
            k \notin Pages => bundle.files[k] = input.files[k]
C20_Witness ==
    /\ Finished
    /\ \E k \in Range(jsKeys(input)) : ~Has(bundle, k)
    /\ \E k \in Range(jsKeys(input)) : Has(bundle, k) /\ k \notin Removable
    /\ \E h \in Pages : bundle.files[h].source # input.files[h].source
    /\ ~Has(bundle, MapOf(MAIN))
    /\ Has(bundle, MapOf(A))

====
